---- MODULE Spec2Model ----
(***************************************************************************)
(* A model of javascript/webdriver/atoms/element.js:                       *)
(*   - webdriver.atoms.element.type: the translation of wire-protocol key  *)
(*     sequences into batches and their dispatch to bot.action.type;       *)
(*   - webdriver.atoms.element.getAttribute: the attribute resolver.       *)
(* Characters are modelled by their UTF-16 code unit (an integer).         *)
(***************************************************************************)
EXTENDS Integers, Sequences, FiniteSets, TLC

VARIABLES
  keys,                 \* type(): the `keys` argument, a list of strings
  opt_persistModifiers, \* type(): the opt_persistModifiers argument
  pc,                   \* control position of the running call
  convertedSequences,   \* type(): the batches built by the translation
  afterNull,            \* history: indexes `current` took on leaving the null branch
  idx,                  \* type(): index of the batch the dispatch loop is at
  log,                  \* events of the keyboard executor: call / return / throw
  pressed,              \* modifier keys held down on the keyboard
  pressedAtCall,        \* history: `pressed` at the start of each executor call
  error,                \* the error propagated to the caller, or NoError
  element,              \* getAttribute(): the DOM element
  attribute,            \* getAttribute(): the requested name
  ret,                  \* getAttribute(): what the call returned / threw
  reads                 \* getAttribute(): DOM-adapter calls made, in order

vars == <<keys, opt_persistModifiers, pc, convertedSequences, afterNull, idx,
          log, pressed, pressedAtCall, error, element, attribute, ret, reads>>

typeVars == <<keys, opt_persistModifiers, convertedSequences, afterNull, idx,
              log, pressed, pressedAtCall, error>>

attrVars == <<element, attribute, ret, reads>>

----------------------------------------------------------------------------
(* Bounds of the model. *)

\* total number of characters over all the strings of `keys`
MaxKeys == 3
\* number of strings in `keys`
MaxSeqs == 2

----------------------------------------------------------------------------
(* JavaScript values used by both parts. *)

Undefined == [kind |-> "undefined", name |-> "", code |-> 0]
JsNull == [kind |-> "null", name |-> "", code |-> 0]
\* a one-character string of a key list
Char(c) == [kind |-> "char", name |-> "", code |-> c]
\* a member of bot.Keyboard.Keys
BotKey(n) == [kind |-> "key", name |-> n, code |-> 0]

NoError == [msg |-> "", detail |-> <<>>]

----------------------------------------------------------------------------
(* Key tables. *)

\* webdriver.Key: the wire protocol's code points (U+E000 = 57344)
webdriverKey ==
  [NULL |-> 57344, CANCEL |-> 57345, HELP |-> 57346, BACK_SPACE |-> 57347,
   TAB |-> 57348, CLEAR |-> 57349, RETURN |-> 57350, ENTER |-> 57351,
   SHIFT |-> 57352, CONTROL |-> 57353, ALT |-> 57354, PAUSE |-> 57355,
   ESCAPE |-> 57356, SPACE |-> 57357, PAGE_UP |-> 57358, PAGE_DOWN |-> 57359,
   END |-> 57360, HOME |-> 57361, LEFT |-> 57362, UP |-> 57363,
   RIGHT |-> 57364, DOWN |-> 57365, INSERT |-> 57366, DELETE |-> 57367,
   SEMICOLON |-> 57368, EQUALS |-> 57369,
   NUMPAD0 |-> 57370, NUMPAD1 |-> 57371, NUMPAD2 |-> 57372, NUMPAD3 |-> 57373,
   NUMPAD4 |-> 57374, NUMPAD5 |-> 57375, NUMPAD6 |-> 57376, NUMPAD7 |-> 57377,
   NUMPAD8 |-> 57378, NUMPAD9 |-> 57379,
   MULTIPLY |-> 57380, ADD |-> 57381, SEPARATOR |-> 57382, SUBTRACT |-> 57383,
   DECIMAL |-> 57384, DIVIDE |-> 57385,
   F1 |-> 57393, F2 |-> 57394, F3 |-> 57395, F4 |-> 57396, F5 |-> 57397,
   F6 |-> 57398, F7 |-> 57399, F8 |-> 57400, F9 |-> 57401, F10 |-> 57402,
   F11 |-> 57403, F12 |-> 57404, META |-> 57405]

\* the assignments map[key.X] = botKey.Y, as pairs <<code point, value>>
JSON_TO_KEY_MAP_ ==
  LET key == webdriverKey IN
  { <<key.NULL, JsNull>>,
    <<key.BACK_SPACE, BotKey("BACKSPACE")>>,
    <<key.TAB, BotKey("TAB")>>,
    <<key.RETURN, BotKey("ENTER")>>,
    <<key.ENTER, BotKey("ENTER")>>,
    <<key.SHIFT, BotKey("SHIFT")>>,
    <<key.CONTROL, BotKey("CONTROL")>>,
    <<key.ALT, BotKey("ALT")>>,
    <<key.PAUSE, BotKey("PAUSE")>>,
    <<key.ESCAPE, BotKey("ESC")>>,
    <<key.SPACE, BotKey("SPACE")>>,
    <<key.PAGE_UP, BotKey("PAGE_UP")>>,
    <<key.PAGE_DOWN, BotKey("PAGE_DOWN")>>,
    <<key.END, BotKey("END")>>,
    <<key.HOME, BotKey("HOME")>>,
    <<key.LEFT, BotKey("LEFT")>>,
    <<key.UP, BotKey("UP")>>,
    <<key.RIGHT, BotKey("RIGHT")>>,
    <<key.DOWN, BotKey("DOWN")>>,
    <<key.INSERT, BotKey("INSERT")>>,
    <<key.DELETE, BotKey("DELETE")>>,
    <<key.SEMICOLON, BotKey("SEMICOLON")>>,
    <<key.EQUALS, BotKey("EQUALS")>>,
    <<key.NUMPAD0, BotKey("NUM_ZERO")>>,
    <<key.NUMPAD1, BotKey("NUM_ONE")>>,
    <<key.NUMPAD2, BotKey("NUM_TWO")>>,
    <<key.NUMPAD3, BotKey("NUM_THREE")>>,
    <<key.NUMPAD4, BotKey("NUM_FOUR")>>,
    <<key.NUMPAD5, BotKey("NUM_FIVE")>>,
    <<key.NUMPAD6, BotKey("NUM_SIX")>>,
    <<key.NUMPAD7, BotKey("NUM_SEVEN")>>,
    <<key.NUMPAD8, BotKey("NUM_EIGHT")>>,
    <<key.NUMPAD9, BotKey("NUM_NINE")>>,
    <<key.MULTIPLY, BotKey("NUM_MULTIPLY")>>,
    <<key.ADD, BotKey("NUM_PLUS")>>,
    <<key.SUBTRACT, BotKey("NUM_MINUS")>>,
    <<key.DECIMAL, BotKey("NUM_PERIOD")>>,
    <<key.DIVIDE, BotKey("NUM_DIVISION")>>,
    <<key.SEPARATOR, BotKey("SEPARATOR")>>,
    <<key.F1, BotKey("F1")>>,
    <<key.F2, BotKey("F2")>>,
    <<key.F3, BotKey("F3")>>,
    <<key.F4, BotKey("F4")>>,
    <<key.F5, BotKey("F5")>>,
    <<key.F6, BotKey("F6")>>,
    <<key.F7, BotKey("F7")>>,
    <<key.F8, BotKey("F8")>>,
    <<key.F9, BotKey("F9")>>,
    <<key.F10, BotKey("F10")>>,
    <<key.F11, BotKey("F11")>>,
    <<key.F12, BotKey("F12")>>,
    <<key.META, BotKey("META")>> }

\* the entries of JSON_TO_KEY_MAP_ as a function of the code point
keyMapEntries ==
  [c \in {e[1] : e \in JSON_TO_KEY_MAP_} |->
     (CHOOSE e \in JSON_TO_KEY_MAP_ : e[1] = c)[2]]

\* JSON_TO_KEY_MAP_[key]: the value stored under the code point, or undefined
mapGet(c) ==
  IF c \in DOMAIN keyMapEntries THEN keyMapEntries[c] ELSE Undefined

\* function isWebDriverKey(c): U+E000 <= c && c <= U+E03D
isWebDriverKey(c) == 57344 <= c /\ c <= 57405

\* Number.prototype.toString(16), as the list of hexadecimal digits
RECURSIVE toString16(_)
toString16(n) ==
  LET digit == <<"0", "1", "2", "3", "4", "5", "6", "7", "8", "9",
                 "a", "b", "c", "d", "e", "f">>[(n % 16) + 1]
  IN IF n < 16 THEN <<digit>> ELSE Append(toString16(n \div 16), digit)

----------------------------------------------------------------------------
(* webdriver.atoms.element.type: the translation. *)

\* var persistModifierKeys = !!opt_persistModifiers
persistModifierKeys(opt) == (opt = TRUE)

\* function createSequenceRecord()
createSequenceRecord(opt) == [persist |-> persistModifierKeys(opt), keys |-> <<>>]

\* current.keys.push(k): `current` is the record at index st.current
pushKey(st, k) ==
  [st EXCEPT !.seqs[st.current].keys = Append(@, k)]

\* convertedSequences.push(current = createSequenceRecord())
pushRecord(st, opt) ==
  [st EXCEPT !.seqs = Append(@, createSequenceRecord(opt)),
             !.current = Len(st.seqs) + 1]

\* releaseModifiers that opens no new record while the current one is empty
releaseModifiersDeduplicated(st, opt) ==
  IF st.seqs[st.current].keys = <<>> THEN st
  ELSE LET s1 == pushRecord(st, opt)
           s2 == IF persistModifierKeys(opt)
                 THEN pushRecord([s1 EXCEPT !.seqs[s1.current].persist = FALSE], opt)
                 ELSE s1
       IN [s2 EXCEPT !.after = @ \cup {s2.current}]

\* releaseModifiers without the dummy record that does not persist
releaseModifiersNoDummy(st, opt) ==
  LET s1 == pushRecord(st, opt)
  IN [s1 EXCEPT !.after = @ \cup {s1.current}]

\* releaseModifiers clearing persist on the record that becomes `current`
releaseModifiersPersistOnLast(st, opt) ==
  LET s1 == pushRecord(st, opt)
      s2 == IF persistModifierKeys(opt)
            THEN LET s == pushRecord(s1, opt)
                 IN [s EXCEPT !.seqs[s.current].persist = FALSE]
            ELSE s1
  IN [s2 EXCEPT !.after = @ \cup {s2.current}]

\* the branch webdriverKey === null
releaseModifiers(st, opt) ==
  LET s1 == pushRecord(st, opt)
      s2 == IF persistModifierKeys(opt)
            THEN pushRecord([s1 EXCEPT !.seqs[s1.current].persist = FALSE], opt)
            ELSE s1
  IN [s2 EXCEPT !.after = @ \cup {s2.current}]

\* throw Error('Unsupported WebDriver key: \\u' + key.charCodeAt(0).toString(16))
unsupportedKey(key) ==
  [msg |-> "Unsupported WebDriver key: \\u", detail |-> toString16(key)]

\* alias without the case for backspace
aliasNoBackspace(key) ==
  CASE key = 10 -> BotKey("ENTER")
    [] key = 9 -> BotKey("TAB")
    [] OTHER -> Char(key)

\* the switch over the common aliases
alias(key) ==
  CASE key = 10 -> BotKey("ENTER")
    [] key = 9 -> BotKey("TAB")
    [] key = 8 -> BotKey("BACKSPACE")
    [] OTHER -> Char(key)

\* convertKey testing the mapped value with == null, which accepts undefined
convertKeyLooseNull(st, key, opt) ==
  IF isWebDriverKey(key)
  THEN LET mapped == mapGet(key) IN
       IF mapped = JsNull \/ mapped = Undefined THEN releaseModifiers(st, opt)
       ELSE pushKey(st, mapped)
  ELSE pushKey(st, alias(key))

\* the callback of the inner forEach, applied to one character
convertKey(st, key, opt) ==
  IF isWebDriverKey(key)
  THEN LET mapped == mapGet(key) IN
       IF mapped = JsNull THEN releaseModifiers(st, opt)
       ELSE IF mapped # Undefined THEN pushKey(st, mapped)
       ELSE [st EXCEPT !.thrown = unsupportedKey(key)]
  ELSE pushKey(st, alias(key))

\* goog.array.forEach(sequence.split(''), ...): a throw ends the iteration
RECURSIVE forEachKey(_, _, _, _)
forEachKey(st, sequence, i, opt) ==
  IF i > Len(sequence) \/ st.thrown # NoError THEN st
  ELSE forEachKey(convertKey(st, sequence[i], opt), sequence, i + 1, opt)

\* forEachSequence opening a new record for every string after the first
RECURSIVE forEachSequencePerString(_, _, _, _)
forEachSequencePerString(st, ks, j, opt) ==
  IF j > Len(ks) \/ st.thrown # NoError THEN st
  ELSE forEachSequencePerString(
         forEachKey(IF j > 1 THEN pushRecord(st, opt) ELSE st, ks[j], 1, opt),
         ks, j + 1, opt)

\* goog.array.forEach(keys, ...)
RECURSIVE forEachSequence(_, _, _, _)
forEachSequence(st, ks, j, opt) ==
  IF j > Len(ks) \/ st.thrown # NoError THEN st
  ELSE forEachSequence(forEachKey(st, ks[j], 1, opt), ks, j + 1, opt)

\* lines 311-360: convertedSequences starts with one record, which is `current`
translate(ks, opt) ==
  forEachSequence([seqs |-> <<createSequenceRecord(opt)>>, current |-> 1,
                   after |-> {}, thrown |-> NoError], ks, 1, opt)

----------------------------------------------------------------------------
(* The keyboard executor, bot.action.type(element, keys, keyboard, persist). *)

\* bot.Keyboard.MODIFIERS
MODIFIERS == {"ALT", "CONTROL", "META", "SHIFT"}

\* typing the values in order: a modifier key toggles, any other key is
\* pressed and released
RECURSIVE typeValues(_, _)
typeValues(down, values) ==
  IF values = <<>> THEN down
  ELSE LET v == Head(values)
           d == IF v.kind = "key" /\ v.name \in MODIFIERS
                THEN IF v.name \in down THEN down \ {v.name} ELSE down \cup {v.name}
                ELSE down
       IN typeValues(d, Tail(values))

\* the keyboard after a call that returns
botActionType(down, values, persist) ==
  IF persist THEN typeValues(down, values) ELSE {}

----------------------------------------------------------------------------
(* The inputs of type(). *)

\* the characters the inputs are built from: backspace, tab, newline, 'a',
\* U+E000 (NULL), U+E001 (no mapping), U+E008 (SHIFT), and U+E03E, the first
\* character after the reserved range
RawKeys == {8, 9, 10, 97, 57344, 57345, 57352, 57406}

Strings(n) == UNION {[1..k -> RawKeys] : k \in 0..n}

\* s cut at the positions c[1] <= ... <= c[m-1] into m pieces
Pieces(s, c, m) ==
  [p \in 1..m |->
     SubSeq(s, (IF p = 1 THEN 0 ELSE c[p - 1]) + 1, IF p = m THEN Len(s) ELSE c[p])]

\* the ways of cutting s into m pieces, empty pieces included
Cuts(s, m) ==
  {c \in [1..(m - 1) -> 0..Len(s)] : \A q \in 1..(m - 2) : c[q] <= c[q + 1]}

\* ks is a list of at most MaxSeqs strings of at most MaxKeys characters in all
IsKeyList(ks) ==
  \/ ks = <<>>
  \/ \E m \in 1..MaxSeqs : \E s \in Strings(MaxKeys) : \E c \in Cuts(s, m) :
       ks = Pieces(s, c, m)

\* the modifier keys that may be down on the keyboard handed to type()
PressedAtStart == {{}, {"SHIFT"}, {"CONTROL"}}

----------------------------------------------------------------------------
(* webdriver.atoms.element.type as a process: the translation, then one    *)
(* executor call per record of convertedSequences.                         *)

ExecutorError == [msg |-> "bot.action.type failed", detail |-> <<>>]

call(batch) == [ev |-> "call", keys |-> batch.keys, persist |-> batch.persist]
returned == [ev |-> "return", keys |-> <<>>, persist |-> FALSE]
thrown == [ev |-> "throw", keys |-> <<>>, persist |-> FALSE]

\* the values of the resolver's variables while type() runs
AttrIdle ==
  /\ element = [kind |-> "none"]
  /\ attribute = ""
  /\ ret = [kind |-> "none"]
  /\ reads = <<>>

InitType ==
  /\ IsKeyList(keys)
  /\ opt_persistModifiers \in BOOLEAN
  /\ pressed \in PressedAtStart
  /\ pc = "type"
  /\ convertedSequences = <<>>
  /\ afterNull = {}
  /\ idx = 0
  /\ log = <<>>
  /\ pressedAtCall = <<>>
  /\ error = NoError
  /\ AttrIdle

\* lines 302-360: the whole translation runs before the first executor call;
\* the throw of line 339 leaves type() at once
Translate ==
  /\ pc = "type"
  /\ LET t == translate(keys, opt_persistModifiers) IN
       /\ convertedSequences' = t.seqs
       /\ afterNull' = t.after
       /\ error' = t.thrown
       /\ pc' = IF t.thrown # NoError THEN "threw" ELSE "dispatch"
       /\ idx' = IF t.thrown # NoError THEN 0 ELSE 1
  /\ UNCHANGED <<keys, opt_persistModifiers, log, pressed, pressedAtCall>>
  /\ UNCHANGED attrVars

\* lines 362-364: the loop enters bot.action.type with the next record
ExecCall ==
  /\ pc = "dispatch"
  /\ idx <= Len(convertedSequences)
  /\ log' = Append(log, call(convertedSequences[idx]))
  /\ pressedAtCall' = Append(pressedAtCall, pressed)
  /\ pc' = "inCall"
  /\ UNCHANGED <<keys, opt_persistModifiers, convertedSequences, afterNull, idx,
                 pressed, error>>
  /\ UNCHANGED attrVars

\* bot.action.type returns: the loop moves to the next record
ExecReturn ==
  /\ pc = "inCall"
  /\ pressed' = botActionType(pressed, convertedSequences[idx].keys,
                              convertedSequences[idx].persist)
  /\ log' = Append(log, returned)
  /\ idx' = idx + 1
  /\ pc' = "dispatch"
  /\ UNCHANGED <<keys, opt_persistModifiers, convertedSequences, afterNull,
                 pressedAtCall, error>>
  /\ UNCHANGED attrVars

\* ExecThrow with the error swallowed: the loop goes on to the next record
ExecThrowSwallowed ==
  /\ pc = "inCall"
  /\ pressed' = pressed
  /\ log' = Append(log, thrown)
  /\ idx' = idx + 1
  /\ pc' = "dispatch"
  /\ UNCHANGED <<keys, opt_persistModifiers, convertedSequences, afterNull,
                 pressedAtCall, error>>
  /\ UNCHANGED attrVars

\* bot.action.type throws: nothing catches it, so type() ends with the error;
\* the keyboard is left as it was after some prefix of the record's keys
ExecThrow ==
  /\ pc = "inCall"
  /\ \E k \in 0..Len(convertedSequences[idx].keys) :
       pressed' = typeValues(pressed, SubSeq(convertedSequences[idx].keys, 1, k))
  /\ log' = Append(log, thrown)
  /\ error' = ExecutorError
  /\ pc' = "threw"
  /\ UNCHANGED <<keys, opt_persistModifiers, convertedSequences, afterNull, idx,
                 pressedAtCall>>
  /\ UNCHANGED attrVars

\* line 365: the loop is past the last record and type() returns
TypeReturn ==
  /\ pc = "dispatch"
  /\ idx > Len(convertedSequences)
  /\ pc' = "returned"
  /\ UNCHANGED typeVars
  /\ UNCHANGED attrVars

NextType == Translate \/ ExecCall \/ ExecReturn \/ ExecThrow \/ TypeReturn

SpecType == InitType /\ [][NextType]_vars

----------------------------------------------------------------------------
(* JavaScript values of the attribute resolver. *)

Str(s) == [kind |-> "string", name |-> s, code |-> 0]
Num(n) == [kind |-> "number", name |-> "", code |-> n]
Bool(b) == [kind |-> "boolean", name |-> "", code |-> IF b THEN 1 ELSE 0]
\* an object that is no style declaration (a function, a node list, ...)
Obj == [kind |-> "object", name |-> "", code |-> 0]
\* element.style of an HTML element: an object whose cssText is `css`
CSSStyleDeclaration(css) == [kind |-> "object", name |-> css, code |-> 1]
\* the outcome of a property read that raises an error
Throws == [kind |-> "throws", name |-> "", code |-> 0]

\* ToBoolean
isTruthy(v) ==
  CASE v.kind \in {"undefined", "null"} -> FALSE
    [] v.kind = "string" -> v.name # ""
    [] v.kind = "number" -> v.code # 0
    [] v.kind = "boolean" -> v.code = 1
    [] OTHER -> TRUE

\* goog.isString, goog.isNull, goog.isDefAndNotNull, goog.isObject
isString(v) == v.kind = "string"
isNull(v) == v.kind = "null"
isDefAndNotNull(v) == v.kind \notin {"undefined", "null"}
isObject(v) == v.kind = "object"

\* Number.prototype.toString() of the numbers the model uses
numberToString(n) == <<"0", "1", "2", "3", "4", "5", "6", "7", "8", "9">>[n + 1]

\* v.toString() of a defined, non-null value
toString(v) ==
  CASE v.kind = "string" -> v
    [] v.kind = "number" -> Str(numberToString(v.code))
    [] v.kind = "boolean" -> Str(IF v.code = 1 THEN "true" ELSE "false")
    [] OTHER -> Str("[object Object]")

\* v + ''
concatEmpty(v) ==
  CASE v.kind = "undefined" -> Str("undefined")
    [] v.kind = "null" -> Str("null")
    [] OTHER -> toString(v)

\* String.prototype.toLowerCase on the strings of the model
toLowerCase(s) ==
  CASE s = "STYLE" -> "style"
    [] s = "Checked" -> "checked"
    [] s = "HREF" -> "href"
    [] s = "SRC" -> "src"
    [] s = "DISABLED" -> "disabled"
    [] s = "readOnly" -> "readonly"
    [] s = "CLASS" -> "class"
    [] s = "SpellCheck" -> "spellcheck"
    [] s = "TRUE" -> "true"
    [] s = "False" -> "false"
    [] OTHER -> s

----------------------------------------------------------------------------
(* The tables of the attribute resolver. *)

\* PROPERTY_ALIASES_[k]: the alias, or undefined
PROPERTY_ALIASES_(k) ==
  CASE k = "class" -> Str("className")
    [] k = "readonly" -> Str("readOnly")
    [] OTHER -> Undefined

BOOLEAN_PROPERTIES_ ==
  {"async", "autofocus", "autoplay", "checked", "compact", "complete",
   "controls", "declare", "defaultchecked", "defaultselected", "defer",
   "disabled", "draggable", "ended", "formnovalidate", "hidden",
   "indeterminate", "iscontenteditable", "ismap", "itemscope", "loop",
   "multiple", "muted", "nohref", "noresize", "noshade", "novalidate",
   "nowrap", "open", "paused", "pubdate", "readonly", "required", "reversed",
   "scoped", "seamless", "seeking", "selected", "spellcheck", "truespeed",
   "willvalidate"}

----------------------------------------------------------------------------
(* The DOM adapter (bot.dom) over an element                               *)
(*   [tag, selected, style, attrs, props, failing]:                        *)
(* attrs maps lower-case attribute names to strings, props maps property   *)
(* names to values, failing names the adapter function that raises.        *)

\* bot.dom.isSelectable: a checkbox, a radio button or an option
domIsSelectable(el) == el.tag \in {"INPUT", "OPTION"}
\* bot.dom.isSelected
domIsSelected(el) == el.selected
\* bot.dom.isElement(element, tagName)
domIsElement(el, tagName) == el.tag = tagName
\* bot.dom.getAttribute: the name is matched without regard to case
domGetAttribute(el, n) ==
  IF toLowerCase(n) \in DOMAIN el.attrs THEN el.attrs[toLowerCase(n)] ELSE JsNull
\* bot.dom.getProperty: element[key]
domGetProperty(el, key) ==
  IF key \in DOMAIN el.props THEN el.props[key] ELSE Undefined
\* the DOM property that reflects a lower-case attribute name
domProperty(n) ==
  CASE n = "class" -> "className"
    [] n = "readonly" -> "readOnly"
    [] OTHER -> n

----------------------------------------------------------------------------
(* webdriver.atoms.element.getAttribute.  An outcome is a returned value or *)
(* a propagated adapter error, with the adapter calls made on the way.      *)

Return(v, rd) == [kind |-> "return", value |-> v, by |-> "", reads |-> rd]
Raise(fn, rd) == [kind |-> "throw", value |-> Undefined, by |-> fn, reads |-> rd]

\* value.cssText
cssText(v) == IF v.kind = "object" /\ v.code = 1 THEN Str(v.name) ELSE Undefined

\* styleRule turning an empty cssText into null
styleRuleNullWhenEmpty(el) ==
  LET value == el.style
      css == IF isTruthy(value) /\ ~isString(value) THEN cssText(value) ELSE value
  IN Return(IF css = Str("") THEN JsNull ELSE css, <<>>)

\* lines 133-141
styleRule(el) ==
  LET value == el.style IN
  Return(IF isTruthy(value) /\ ~isString(value) THEN cssText(value) ELSE value, <<>>)

\* PROPERTY_ALIASES_[attribute] || attribute (lines 178-179)
propName(attr) ==
  LET a == PROPERTY_ALIASES_(attr) IN
  IF isTruthy(a) THEN a.name ELSE attr

\* generalRule falling back to the attribute whenever the property is falsy
generalRuleTruthy(el, attr, rd) ==
  LET rd1 == Append(rd, <<"getProperty", propName(attr)>>)
      p == domGetProperty(el, propName(attr))
      property == IF p = Throws THEN Undefined ELSE p
      rd2 == Append(rd1, <<"getAttribute", attr>>)
  IN IF ~isTruthy(property) \/ isObject(property)
     THEN IF el.failing = "getAttribute" THEN Raise("getAttribute", rd2)
          ELSE LET value == domGetAttribute(el, attr) IN
               Return(IF isDefAndNotNull(value) THEN toString(value) ELSE JsNull, rd2)
     ELSE Return(toString(property), rd1)

\* lines 186-210
generalRule(el, attr, rd) ==
  LET rd1 == Append(rd, <<"getProperty", propName(attr)>>)
      p == domGetProperty(el, propName(attr))
      \* the catch block leaves `property` undefined
      property == IF p = Throws THEN Undefined ELSE p
      rd2 == Append(rd1, <<"getAttribute", attr>>)
  IN IF ~isDefAndNotNull(property) \/ isObject(property)
     THEN IF el.failing = "getAttribute" THEN Raise("getAttribute", rd2)
          ELSE LET value == domGetAttribute(el, attr) IN
               Return(IF isDefAndNotNull(value) THEN toString(value) ELSE JsNull, rd2)
     ELSE Return(toString(property), rd1)

\* booleanRule with the property read in a try/catch of its own
booleanRuleCatching(el, attr, rd) ==
  LET rd1 == Append(rd, <<"getAttribute", attr>>)
      rd2 == Append(rd1, <<"getProperty", propName(attr)>>)
      p == domGetProperty(el, propName(attr))
      property == IF p = Throws THEN Undefined ELSE p
  IN IF el.failing = "getAttribute" THEN Raise("getAttribute", rd1)
     ELSE IF ~isNull(domGetAttribute(el, attr)) THEN Return(Str("true"), rd1)
     ELSE Return(IF isTruthy(property) THEN Str("true") ELSE JsNull, rd2)

\* booleanRule taking an empty attribute value for an absent attribute
booleanRuleTruthyAttribute(el, attr, rd) ==
  LET rd1 == Append(rd, <<"getAttribute", attr>>)
      rd2 == Append(rd1, <<"getProperty", propName(attr)>>)
      p == domGetProperty(el, propName(attr))
  IN IF el.failing = "getAttribute" THEN Raise("getAttribute", rd1)
     ELSE IF isTruthy(domGetAttribute(el, attr)) THEN Return(Str("true"), rd1)
     ELSE IF p = Throws THEN Raise("getProperty", rd2)
     ELSE Return(IF isTruthy(p) THEN Str("true") ELSE JsNull, rd2)

\* lines 180-184
booleanRule(el, attr, rd) ==
  LET rd1 == Append(rd, <<"getAttribute", attr>>)
      rd2 == Append(rd1, <<"getProperty", propName(attr)>>)
      p == domGetProperty(el, propName(attr))
  IN IF el.failing = "getAttribute" THEN Raise("getAttribute", rd1)
     ELSE IF ~isNull(domGetAttribute(el, attr)) THEN Return(Str("true"), rd1)
     ELSE IF p = Throws THEN Raise("getProperty", rd2)
     ELSE Return(IF isTruthy(p) THEN Str("true") ELSE JsNull, rd2)

\* spellcheckRule comparing the attribute text without lower-casing it
spellcheckRuleCaseSensitive(el, name, rd) ==
  LET rd1 == Append(rd, <<"getAttribute", name>>)
      rd2 == Append(rd1, <<"getProperty", name>>)
      value == domGetAttribute(el, name)
      p == domGetProperty(el, name)
  IN IF el.failing = "getAttribute" THEN Raise("getAttribute", rd1)
     ELSE IF ~isNull(value) /\ value.name = "false" THEN Return(Str("false"), rd1)
     ELSE IF ~isNull(value) /\ value.name = "true" THEN Return(Str("true"), rd1)
     ELSE IF p = Throws THEN Raise("getProperty", rd2)
     ELSE Return(concatEmpty(p), rd2)

\* lines 165-176
spellcheckRule(el, name, rd) ==
  LET rd1 == Append(rd, <<"getAttribute", name>>)
      rd2 == Append(rd1, <<"getProperty", name>>)
      value == domGetAttribute(el, name)
      p == domGetProperty(el, name)
  IN IF el.failing = "getAttribute" THEN Raise("getAttribute", rd1)
     ELSE IF ~isNull(value) /\ toLowerCase(value.name) = "false"
          THEN Return(Str("false"), rd1)
     ELSE IF ~isNull(value) /\ toLowerCase(value.name) = "true"
          THEN Return(Str("true"), rd1)
     ELSE IF p = Throws THEN Raise("getProperty", rd2)
     ELSE Return(concatEmpty(p), rd2)

\* linkRule returning the attribute text
linkRuleAttributeText(el, name, rd) ==
  LET rd1 == Append(rd, <<"getAttribute", name>>)
  IN IF el.failing = "getAttribute" THEN Raise("getAttribute", rd1)
     ELSE Return(domGetAttribute(el, name), rd1)

\* lines 156-163
linkRule(el, name, rd) ==
  LET rd1 == Append(rd, <<"getAttribute", name>>)
      rd2 == Append(rd1, <<"getProperty", name>>)
      value == domGetAttribute(el, name)
      p == domGetProperty(el, name)
  IN IF el.failing = "getAttribute" THEN Raise("getAttribute", rd1)
     ELSE IF isTruthy(value)
          THEN IF p = Throws THEN Raise("getProperty", rd2) ELSE Return(p, rd2)
     ELSE Return(value, rd1)

\* lines 151-211: everything after the selection rule
afterSelection(el, attr, name, rd) ==
  LET rd1 == Append(rd, <<"isElement", "A">>)
      rd2 == Append(rd1, <<"isElement", "IMG">>)
      isLink == domIsElement(el, "A")
      isImg == domIsElement(el, "IMG")
  IN IF el.failing = "isElement" THEN Raise("isElement", rd1)
     ELSE IF (isImg /\ name = "src") \/ (isLink /\ name = "href")
          THEN linkRule(el, name, rd2)
     ELSE IF name = "spellcheck" THEN spellcheckRule(el, name, rd2)
     ELSE IF name \in BOOLEAN_PROPERTIES_ THEN booleanRule(el, attr, rd2)
     ELSE generalRule(el, attr, rd2)

\* getAttribute without the rule for selected and checked
getAttributeNoSelection(el, attr) ==
  LET name == toLowerCase(attr)
  IN IF name = "style" THEN styleRule(el)
     ELSE afterSelection(el, attr, name, <<>>)

\* lines 129-211
getAttribute(el, attr) ==
  LET name == toLowerCase(attr)
      rd1 == <<<<"isSelectable", "">>>>
      rd2 == Append(rd1, <<"isSelected", "">>)
  IN IF name = "style" THEN styleRule(el)
     ELSE IF name = "selected" \/ name = "checked"
          THEN IF el.failing = "isSelectable" THEN Raise("isSelectable", rd1)
               ELSE IF domIsSelectable(el)
                    THEN IF el.failing = "isSelected" THEN Raise("isSelected", rd2)
                         ELSE Return(IF domIsSelected(el) THEN Str("true") ELSE JsNull,
                                     rd2)
               ELSE afterSelection(el, attr, name, rd1)
     ELSE afterSelection(el, attr, name, <<>>)

----------------------------------------------------------------------------
(* The inputs of getAttribute(). *)

AttributeNames ==
  BOOLEAN_PROPERTIES_ \cup
  {"style", "href", "src", "class", "id", "value",
   "STYLE", "Checked", "HREF", "SRC", "DISABLED", "readOnly", "CLASS",
   "SpellCheck"}

\* (tag, selected): only a selectable control can be selected
Controls ==
  {<<"A", FALSE>>, <<"IMG", FALSE>>, <<"DIV", FALSE>>,
   <<"INPUT", FALSE>>, <<"INPUT", TRUE>>}

StyleValues ==
  {Undefined, JsNull, Str("color: red;"),
   CSSStyleDeclaration(""), CSSStyleDeclaration("color: red;")}

AttributeValues == {JsNull, Str(""), Str("rel"), Str("TRUE"), Str("False")}

PropertyValues ==
  {Undefined, JsNull, Str(""), Str("http://host/rel"), Num(0),
   Bool(TRUE), Bool(FALSE), Obj, Throws}

AdapterFailures == {"", "isSelectable", "isSelected", "isElement", "getAttribute"}

\* the elements asked for attribute `a`: the raw attribute of that name and
\* the DOM property reflecting it take every value
Elements(a) ==
  {[tag |-> c[1], selected |-> c[2], style |-> st,
    attrs |-> (toLowerCase(a) :> av),
    props |-> (domProperty(toLowerCase(a)) :> pv),
    failing |-> f] :
     c \in Controls, st \in StyleValues, av \in AttributeValues,
     pv \in PropertyValues, f \in AdapterFailures}

\* the values of type()'s variables while getAttribute() runs
TypeIdle ==
  /\ keys = <<>>
  /\ opt_persistModifiers = FALSE
  /\ convertedSequences = <<>>
  /\ afterNull = {}
  /\ idx = 0
  /\ log = <<>>
  /\ pressed = {}
  /\ pressedAtCall = <<>>
  /\ error = NoError

InitAttr ==
  /\ attribute \in AttributeNames
  /\ element \in Elements(attribute)
  /\ pc = "getAttribute"
  /\ ret = [kind |-> "none"]
  /\ reads = <<>>
  /\ TypeIdle

\* one call of webdriver.atoms.element.getAttribute(element, attribute)
GetAttribute ==
  /\ pc = "getAttribute"
  /\ LET r == getAttribute(element, attribute) IN
       /\ ret' = [kind |-> r.kind, value |-> r.value, by |-> r.by]
       /\ reads' = r.reads
       /\ pc' = IF r.kind = "throw" THEN "threw" ELSE "returned"
  /\ UNCHANGED <<element, attribute>>
  /\ UNCHANGED typeVars

NextAttr == GetAttribute

SpecAttr == InitAttr /\ [][NextAttr]_vars

----------------------------------------------------------------------------
(* Properties of type(): what they are stated over. *)

\* the characters of all the strings of a list, in order
RECURSIVE Flat(_)
Flat(ks) == IF ks = <<>> THEN <<>> ELSE Head(ks) \o Flat(Tail(ks))

\* the concatenation of the key lists of a list of batches
RECURSIVE AllKeys(_)
AllKeys(bs) == IF bs = <<>> THEN <<>> ELSE Head(bs).keys \o AllKeys(Tail(bs))

ReleaseCode == webdriverKey.NULL

\* the reserved code points that have no entry in the key map
UnmappedCodes == {c \in 57344..57405 : ~(\E e \in JSON_TO_KEY_MAP_ : e[1] = c)}

Unmapped(c) == c \in UnmappedCodes

\* the number of release codes in the input
Releases ==
  LET f == Flat(keys) IN Cardinality({p \in 1..Len(f) : f[p] = ReleaseCode})

\* the input holds no reserved code without a mapping
Supported == LET f == Flat(keys) IN \A p \in 1..Len(f) : ~Unmapped(f[p])

\* the translation has run
Translated == pc # "type"

\* the value of a list of hexadecimal digits
RECURSIVE HexValue(_)
HexValue(ds) ==
  IF ds = <<>> THEN 0
  ELSE LET d == ds[Len(ds)]
           v == CHOOSE n \in 0..15 :
                  <<"0", "1", "2", "3", "4", "5", "6", "7", "8", "9",
                    "a", "b", "c", "d", "e", "f">>[n + 1] = d
       IN 16 * HexValue(SubSeq(ds, 1, Len(ds) - 1)) + v

\* C1: the executor is called once per batch, in construction order, with the
\* batch's keys and persist flag; a call starts only after the one before has
\* returned; a failing call ends type() with the executor's error and no later
\* call is made.
C1_ExecutorPerBatch ==
  /\ Len(log) <= 2 * Len(convertedSequences)
  /\ \A i \in 1..Len(log) :
       IF i % 2 = 1
       THEN /\ log[i].ev = "call"
            /\ log[i].keys = convertedSequences[(i + 1) \div 2].keys
            /\ log[i].persist = convertedSequences[(i + 1) \div 2].persist
       ELSE /\ log[i].ev \in {"return", "throw"}
            /\ log[i].ev = "throw" => i = Len(log)
  /\ pc = "returned" =>
       /\ Len(log) = 2 * Len(convertedSequences)
       /\ error = NoError
  /\ (log # <<>> /\ log[Len(log)].ev = "throw") =>
       /\ pc = "threw"
       /\ error = ExecutorError
  /\ (pc = "threw" /\ log # <<>>) => log[Len(log)].ev = "throw"

\* the second of at least three executor calls has failed
C1_Witness ==
  /\ pc = "threw"
  /\ Len(convertedSequences) >= 3
  /\ Len(log) = 4
  /\ log[2].ev = "return"
  /\ log[4].ev = "throw"
  /\ error = ExecutorError

\* C2: without unmapped codes, r release codes give r+1 batches, all with
\* persist false, when persistModifiers is false, and 2r+1 batches with flags
\* true, false, true, ..., true when it is true, every second batch being
\* empty; an input without characters gives one empty batch whose persist is
\* persistModifiers.
C2_BatchCount ==
  (Translated /\ Supported) =>
    /\ ~opt_persistModifiers =>
         /\ Len(convertedSequences) = Releases + 1
         /\ \A i \in 1..Len(convertedSequences) : ~convertedSequences[i].persist
    /\ opt_persistModifiers =>
         /\ Len(convertedSequences) = 2 * Releases + 1
         /\ \A i \in 1..Len(convertedSequences) :
              /\ convertedSequences[i].persist = (i % 2 = 1)
              /\ i % 2 = 0 => convertedSequences[i].keys = <<>>
    /\ Flat(keys) = <<>> =>
         convertedSequences = <<[persist |-> opt_persistModifiers, keys |-> <<>>]>>

\* two consecutive release codes with persistence: five batches
C2_Witness ==
  /\ Translated
  /\ opt_persistModifiers
  /\ Len(Flat(keys)) >= 2
  /\ Flat(keys)[1] = ReleaseCode
  /\ Flat(keys)[2] = ReleaseCode
  /\ Len(convertedSequences) >= 5

\* C3: when the executor starts a batch that takes the keys following a
\* release code, no modifier key is down.
C3_ReleasedBeforeNextKeys ==
  \A i \in 1..Len(pressedAtCall) : i \in afterNull => pressedAtCall[i] = {}

\* with persistence, a modifier pressed before a release code is up when the
\* batch with the key after the release code starts
C3_Witness ==
  /\ opt_persistModifiers
  /\ \E i \in afterNull :
       /\ i <= Len(pressedAtCall)
       /\ i >= 2
       /\ pressedAtCall[i - 1] # {}
       /\ convertedSequences[i].keys # <<>>
       /\ pressedAtCall[i] = {}

\* C4: an unmapped reserved code makes type() fail with the unsupported-key
\* error that names the code point, and the executor is never called.
C4_UnsupportedKey ==
  /\ UnmappedCodes = {57345, 57346, 57349} \cup (57386..57392)
  /\ (Translated /\ ~Supported) =>
       /\ pc = "threw"
       /\ error.msg = "Unsupported WebDriver key: \\u"
       /\ LET f == Flat(keys) IN
          \E p \in 1..Len(f) :
            /\ Unmapped(f[p])
            /\ \A q \in 1..(p - 1) : ~Unmapped(f[q])
            /\ HexValue(error.detail) = f[p]
       /\ log = <<>>
       /\ pressedAtCall = <<>>

\* the bad code came after keys that were already put into a batch
C4_Witness ==
  /\ pc = "threw"
  /\ ~Supported
  /\ Len(convertedSequences) >= 2
  /\ convertedSequences[1].keys # <<>>
  /\ error.detail = <<"e", "0", "0", "1">>
  /\ log = <<>>

\* the logical key a character other than the release code stands for
ExpectedKey(c) ==
  CASE c = 10 -> BotKey("ENTER")
    [] c = 9 -> BotKey("TAB")
    [] c = 8 -> BotKey("BACKSPACE")
    [] c \in 57344..57405 -> keyMapEntries[c]
    [] OTHER -> Char(c)

\* the positions of the input that hold no release code, in order
KeptPositions ==
  LET f == Flat(keys)
      P == {p \in 1..Len(f) : f[p] # ReleaseCode}
  IN [k \in 1..Cardinality(P) |->
        CHOOSE p \in P : Cardinality({q \in P : q < p}) = k - 1]

\* the index of each key of AllKeys(bs) in its batch list: the batch it is in
RECURSIVE BatchIndexes(_, _)
BatchIndexes(bs, i) ==
  IF i > Len(bs) THEN <<>>
  ELSE [k \in 1..Len(bs[i].keys) |-> i] \o BatchIndexes(bs, i + 1)

\* C5: without unmapped codes, the batches' key lists concatenated are the
\* input with the release codes removed and every other character mapped in
\* place; two keys next to each other fall into different batches only if a
\* release code lies between them; "a" and a release code without persistence
\* give the batches ["a"] and [].
C5_KeysPreserved ==
  (Translated /\ Supported) =>
    LET f == Flat(keys)
        kept == KeptPositions
        all == AllKeys(convertedSequences)
        batchOf == BatchIndexes(convertedSequences, 1)
    IN
    /\ Len(all) = Len(kept)
    /\ \A k \in 1..Len(kept) : all[k] = ExpectedKey(f[kept[k]])
    /\ \A k \in 1..(Len(kept) - 1) :
         /\ batchOf[k] <= batchOf[k + 1]
         /\ batchOf[k] < batchOf[k + 1] => kept[k + 1] > kept[k] + 1
    /\ (Flat(keys) = <<97, ReleaseCode>> /\ ~opt_persistModifiers) =>
         convertedSequences = <<[persist |-> FALSE, keys |-> <<Char(97)>>],
                                [persist |-> FALSE, keys |-> <<>>]>>

\* a backspace, a release code and a mapped code have been translated
C5_Witness ==
  /\ Translated
  /\ Flat(keys) = <<8, ReleaseCode, 57352>>
  /\ Len(convertedSequences) = 2
  /\ convertedSequences[1].keys = <<BotKey("BACKSPACE")>>
  /\ convertedSequences[2].keys = <<BotKey("SHIFT")>>

----------------------------------------------------------------------------
(* Properties of getAttribute(): what they are stated over. *)

\* the lower-case form of the requested name
Name == toLowerCase(attribute)

\* the raw attribute of the requested name
RawAttribute == element.attrs[Name]

\* the DOM property that reflects the requested name
Property == element.props[domProperty(Name)]

\* the property key of the boolean and the general case: the alias of the
\* name as given, or the name as given
AliasedKey ==
  CASE attribute = "class" -> "className"
    [] attribute = "readonly" -> "readOnly"
    [] OTHER -> attribute

\* the property of the element under that key
ReadProperty ==
  IF AliasedKey \in DOMAIN element.props THEN element.props[AliasedKey]
  ELSE Undefined

\* the value is absent
Absent(v) == v.kind \in {"null", "undefined"}

IsLinkOrImage ==
  \/ element.tag = "A" /\ Name = "href"
  \/ element.tag = "IMG" /\ Name = "src"

IsSelection == Name \in {"selected", "checked"} /\ element.tag \in {"INPUT", "OPTION"}

\* C6, as claimed: for every boolean attribute name the result is null when
\* the attribute is absent and the property falsy, "true" when the attribute
\* is present, and never "false".
C6_AllBooleanNames ==
  (pc = "returned" /\ Name \in BOOLEAN_PROPERTIES_) =>
    /\ (isNull(RawAttribute) /\ ~isTruthy(ReadProperty)) => ret.value = JsNull
    /\ ~isNull(RawAttribute) => ret.value = Str("true")
    /\ ret.value # Str("false")

\* C6, amended: the same for every boolean attribute name but spellcheck,
\* and, for selected and checked, on elements that are no selectable control;
\* no name but spellcheck ever gives "false".
C6_BooleanNames ==
  (pc = "returned" /\ Name \in BOOLEAN_PROPERTIES_ /\ Name # "spellcheck") =>
    /\ ~IsSelection =>
         /\ (isNull(RawAttribute) /\ ~isTruthy(ReadProperty)) => ret.value = JsNull
         /\ ~isNull(RawAttribute) => ret.value = Str("true")
    /\ ret.value # Str("false")

\* an upper-case boolean name with an empty attribute gives "true"
C6_Witness ==
  /\ pc = "returned"
  /\ attribute = "DISABLED"
  /\ RawAttribute = Str("")
  /\ ~isTruthy(ReadProperty)
  /\ ret.value = Str("true")

\* C7: href of an anchor and src of an image: null when the attribute is
\* absent, the property value when it is present and not empty, the empty
\* string without a property read when it is empty; no other rule is applied.
C7_LinkAndImage ==
  (pc # "getAttribute" /\ IsLinkOrImage) =>
    /\ \E n \in 0..4 :
         reads = SubSeq(<<<<"isElement", "A">>, <<"isElement", "IMG">>,
                          <<"getAttribute", Name>>, <<"getProperty", Name>>>>, 1, n)
    /\ pc = "returned" =>
         /\ isNull(RawAttribute) => ret.value = JsNull
         /\ (~isNull(RawAttribute) /\ RawAttribute # Str("")) => ret.value = Property
         /\ RawAttribute = Str("") => ret.value = Str("")
         /\ Len(reads) = (IF isTruthy(RawAttribute) THEN 4 ELSE 3)

\* HREF of an anchor with a relative href gives the absolute URL
C7_Witness ==
  /\ pc = "returned"
  /\ attribute = "HREF"
  /\ element.tag = "A"
  /\ RawAttribute = Str("rel")
  /\ Property = Str("http://host/rel")
  /\ ret.value = Str("http://host/rel")

\* C8, as claimed: style gives the inline style as CSS text when one is set
\* and null when none is set, without any adapter call.
C8_StyleOrNull ==
  (pc # "getAttribute" /\ Name = "style") =>
    /\ pc = "returned"
    /\ reads = <<>>
    /\ element.style \in {Str("color: red;"), CSSStyleDeclaration("color: red;")} =>
         ret.value = Str("color: red;")
    /\ element.style \in {Undefined, JsNull, CSSStyleDeclaration("")} =>
         Absent(ret.value)

\* C8, amended: style gives the cssText of the element's style object, which
\* is the empty string when no inline style is set; it gives element.style
\* itself when that is a string or is absent; no adapter call is made.
C8_StyleCssText ==
  (pc # "getAttribute" /\ Name = "style") =>
    /\ pc = "returned"
    /\ reads = <<>>
    /\ element.style.kind = "object" => ret.value = Str(element.style.name)
    /\ element.style.kind # "object" => ret.value = element.style

\* STYLE of an element without inline style gives the empty string
C8_Witness ==
  /\ pc = "returned"
  /\ attribute = "STYLE"
  /\ element.style = CSSStyleDeclaration("")
  /\ ret.value = Str("")

\* the property of the general case; a failed read counts as undefined
GeneralProperty == IF ReadProperty = Throws THEN Undefined ELSE ReadProperty

\* the string form of a primitive
StringForm(v) ==
  CASE v = Num(0) -> Str("0")
    [] v = Bool(TRUE) -> Str("true")
    [] v = Bool(FALSE) -> Str("false")
    [] OTHER -> v

IsGeneral ==
  /\ Name # "style"
  /\ Name \notin BOOLEAN_PROPERTIES_
  /\ ~IsLinkOrImage

\* C9: in the general case the property is used when it is a string, a
\* number or a boolean, and the raw attribute otherwise; the result is the
\* string form of the chosen value, null exactly when that is absent, and
\* the empty string when it is the empty string.
C9_GeneralCase ==
  (pc # "getAttribute" /\ IsGeneral) =>
    LET usesProperty == GeneralProperty.kind \in {"string", "number", "boolean"}
        chosen == IF usesProperty THEN GeneralProperty ELSE RawAttribute
    IN /\ (element.failing = "" \/ (usesProperty /\ element.failing # "isElement"))
            => pc = "returned"
       /\ pc = "returned" =>
            /\ ret.value = (IF Absent(chosen) THEN JsNull ELSE StringForm(chosen))
            /\ (ret.value = JsNull) = Absent(chosen)
            /\ chosen = Str("") => ret.value = Str("")

\* an empty string property wins over a non-empty attribute
C9_Witness ==
  /\ pc = "returned"
  /\ attribute = "id"
  /\ Property = Str("")
  /\ RawAttribute = Str("rel")
  /\ ret.value = Str("")

\* C10: selected and checked on a selectable control give "true" if and only
\* if the control is selected, and null otherwise, whatever the attribute and
\* the property are.
C10_Selection ==
  (pc = "returned" /\ IsSelection) =>
    /\ ret.value = (IF element.selected THEN Str("true") ELSE JsNull)
    /\ reads = <<<<"isSelectable", "">>, <<"isSelected", "">>>>

\* an unchecked checkbox with the checked attribute and a true property
C10_Witness ==
  /\ pc = "returned"
  /\ attribute = "Checked"
  /\ element.tag = "INPUT"
  /\ ~element.selected
  /\ RawAttribute = Str("")
  /\ Property = Bool(TRUE)
  /\ ret.value = JsNull

\* the text is "false" / "true" in some letter case
IsFalseText(v) == v \in {Str("false"), Str("False"), Str("FALSE")}
IsTrueText(v) == v \in {Str("true"), Str("True"), Str("TRUE")}

\* the string a value turns into when it is appended to ''
CoercedString(v) ==
  CASE v = Undefined -> Str("undefined")
    [] v = JsNull -> Str("null")
    [] v = Num(0) -> Str("0")
    [] v = Bool(TRUE) -> Str("true")
    [] v = Bool(FALSE) -> Str("false")
    [] v = Obj -> Str("[object Object]")
    [] OTHER -> v

\* C11: spellcheck in any letter case gives "false" when the raw attribute is
\* "false" in any letter case, "true" when it is "true" in any letter case,
\* and otherwise the string form of the property; it never gives null.
C11_Spellcheck ==
  (pc = "returned" /\ Name = "spellcheck") =>
    /\ IsFalseText(RawAttribute) => ret.value = Str("false")
    /\ IsTrueText(RawAttribute) => ret.value = Str("true")
    /\ (~IsFalseText(RawAttribute) /\ ~IsTrueText(RawAttribute)) =>
         ret.value = CoercedString(Property)
    /\ ret.value.kind = "string"

\* SpellCheck with the attribute "False" and a true property gives "false"
C11_Witness ==
  /\ pc = "returned"
  /\ attribute = "SpellCheck"
  /\ RawAttribute = Str("False")
  /\ Property = Bool(TRUE)
  /\ ret.value = Str("false")

\* the alias of the lower-case form of the requested name, or the name as
\* given when that form has no alias
AliasAnyCase ==
  CASE Name = "class" -> "className"
    [] Name = "readonly" -> "readOnly"
    [] OTHER -> attribute

\* the requested name has an alias once lower-cased
HasAliasAnyCase == Name \in {"class", "readonly"}

\* C12, as claimed: the alias lookup ignores letter case: the boolean and the
\* general case read the property under the alias of the lower-cased name
\* (the name as given when there is none), and a name with an alias gives,
\* in any letter case, what its lower-case form gives.
C12_AliasAnyCase ==
  (pc # "getAttribute") =>
    /\ \A i \in DOMAIN reads :
         (reads[i][1] = "getProperty" /\ ~IsLinkOrImage /\ Name # "spellcheck")
           => reads[i][2] = AliasAnyCase
    /\ HasAliasAnyCase =>
         LET r == getAttribute(element, Name) IN
         /\ ret.kind = r.kind
         /\ ret.value = r.value

\* the i-th adapter call of the run failed
FailedCall(i) ==
  \/ reads[i][1] = element.failing
  \/ /\ reads[i][1] = "getProperty"
     /\ reads[i][2] \in DOMAIN element.props
     /\ element.props[reads[i][2]] = Throws

\* the i-th adapter call is the property read of the general case
GeneralPropertyRead(i) == IsGeneral /\ reads[i][1] = "getProperty"

\* C13: a failing adapter call is swallowed only when it is the property read
\* of the general case, which then goes on with the raw attribute as if the
\* property were absent; any other failing call that is made ends the run
\* with that failure and without a value.
C13_FailuresPropagate ==
  (pc # "getAttribute") =>
    /\ pc = "threw" <=>
         \E i \in DOMAIN reads : FailedCall(i) /\ ~GeneralPropertyRead(i)
    /\ pc = "threw" =>
         /\ ret.kind = "throw"
         /\ ret.value = Undefined
         /\ ret.by = reads[Len(reads)][1]
         /\ FailedCall(Len(reads))
         /\ \A i \in 1..(Len(reads) - 1) :
              FailedCall(i) => GeneralPropertyRead(i)
    /\ (pc = "returned" /\ \E i \in DOMAIN reads : FailedCall(i)) =>
         /\ reads[Len(reads)] = <<"getAttribute", attribute>>
         /\ ret.value = (IF Absent(RawAttribute) THEN JsNull ELSE RawAttribute)

\* the property read of the general case fails and is swallowed, and the
\* fallback read of the raw attribute fails and is passed on
C13_Witness ==
  /\ pc = "threw"
  /\ IsGeneral
  /\ ReadProperty = Throws
  /\ element.failing = "getAttribute"
  /\ ret.by = "getAttribute"
  /\ reads[Len(reads) - 1][1] = "getProperty"

\* the characters that stand for the modifier keys
ModifierCodes ==
  {<<57352, "SHIFT">>, <<57353, "CONTROL">>, <<57354, "ALT">>, <<57405, "META">>}

\* the position of the last release code of the input, 0 when it has none
LastRelease ==
  LET f == Flat(keys)
      ps == {p \in 1..Len(f) : f[p] = ReleaseCode}
  IN IF ps = {} THEN 0 ELSE CHOOSE p \in ps : \A q \in ps : q <= p

\* the modifier keys typed an odd number of times after the last release code
ToggledAfterLastRelease ==
  LET f == Flat(keys) IN
  {m[2] : m \in {e \in ModifierCodes :
                   Cardinality({p \in (LastRelease + 1)..Len(f) : f[p] = e[1]}) % 2 = 1}}

\* the modifier keys down after the last release code: without a release
\* code the keys typed toggle the keyboard type() was handed
DownAfterLastRelease ==
  LET base == IF LastRelease = 0 THEN pressedAtCall[1] ELSE {}
      t == ToggledAfterLastRelease
  IN (base \ t) \cup (t \ base)

\* C14: when type() returns, its last executor call carried
\* persist = persistModifiers; the modifier keys pressed after the last
\* release code are then still down when persistModifiers is true, and no
\* modifier key is down when it is false.
C14_LastCallPersists ==
  (pc = "returned") =>
    LET n == Len(log) IN
    /\ n >= 2
    /\ log[n] = returned
    /\ log[n - 1] = call(convertedSequences[Len(convertedSequences)])
    /\ log[n - 1].persist = opt_persistModifiers
    /\ opt_persistModifiers => pressed = DownAfterLastRelease
    /\ ~opt_persistModifiers => pressed = {}

\* SHIFT, a release code, SHIFT again, with persistence: SHIFT is down when
\* type() returns
C14_Witness ==
  /\ pc = "returned"
  /\ opt_persistModifiers
  /\ Flat(keys) = <<57352, ReleaseCode, 57352>>
  /\ pressed = {"SHIFT"}

\* C15: cutting the input into strings changes nothing: the list of strings
\* gives the batches (key lists and persist flags), the error and the
\* executor calls that the one string of all its characters gives.
C15_BoundariesInvisible ==
  Translated =>
    LET t == translate(<<Flat(keys)>>, opt_persistModifiers) IN
    /\ convertedSequences = t.seqs
    /\ t.thrown # NoError => (pc = "threw" /\ error = t.thrown /\ log = <<>>)
    /\ t.thrown = NoError => error \in {NoError, ExecutorError}
    /\ pc = "returned" =>
         /\ Len(log) = 2 * Len(t.seqs)
         /\ \A i \in 1..Len(t.seqs) : log[2 * i - 1] = call(t.seqs[i])

\* two non-empty strings with no release code between them end up in one
\* batch, which is handed to the executor in one call
C15_Witness ==
  /\ pc = "returned"
  /\ Len(keys) = 2
  /\ keys[1] # <<>>
  /\ keys[2] # <<>>
  /\ Len(convertedSequences) = 1
  /\ Len(convertedSequences[1].keys) = Len(keys[1]) + Len(keys[2])
  /\ Len(log) = 2

====
